---- MODULE Spec2Model ----
(***************************************************************************)
(* Model of custom_components/extended_openai_conversation/__init__.py:    *)
(* the conversation turn (OpenAIAgent.async_process), the function-call    *)
(* recursion (query / execute_function_call / execute_function), the       *)
(* post-processing of the model text, and the set-up and unloading of a    *)
(* config entry.                                                           *)
(*                                                                         *)
(* A text is a sequence of tokens.  One token stands for a run of          *)
(* characters that the regular expression and the JSON parser treat as a   *)
(* unit:                                                                   *)
(*   "LB" "RB"   the characters { and }                                    *)
(*   "NL"        a newline                                                 *)
(*   "BS"        a backslash                                               *)
(*   "AR" "NAR"  the sentinels $ActionRequired and $NoActionRequired       *)
(*   "W"         words of plain text                                       *)
(*   "SVA" "SVB" "SVS" "SVN"  a member "service": "<name>" of an object    *)
(*   "KV"        a member "entity_id": "light.kitchen" of an object        *)
(*   "KO"        a key and its colon, "data": , awaiting an object value   *)
(*   "ERRNOTE" "OKNOTE"  the two notices the code adds to a text           *)
(* Commas between the members of an object are left implicit.              *)
(*                                                                         *)
(* Where an operator uses an intermediate result several times, the        *)
(* result is bound with \in {...}, which computes it once.                 *)
(***************************************************************************)
EXTENDS Integers, Sequences, FiniteSets, TLC

\* bound: the number of turns started in one behaviour
MaxTurns == 2
\* bound: the largest configured maximum of function calls
MaxCalls == 2
\* bound: the number of set-up and unload calls for one entry
MaxEntryCalls == 3

----------------------------------------------------------------------------
(* Texts                                                                   *)

ServiceTokens == {"SVA", "SVB", "SVS", "SVN"}
MemberTokens == ServiceTokens \cup {"KV"}

\* the value of a "service" member, split at "."  (service.split("."))
ServiceOf(tok) ==
  CASE tok = "SVA" -> <<"light", "turn_on">>
    [] tok = "SVB" -> <<"switch", "turn_off">>
    [] tok = "SVS" -> <<"script", "goodnight">>
    [] OTHER -> <<"restart">>

RECURSIVE RemoveToken(_, _)
\* str.replace(tok, '')
RemoveToken(text, tok) ==
  IF text = <<>> THEN <<>>
  ELSE IF Head(text) = tok THEN RemoveToken(Tail(text), tok)
       ELSE <<Head(text)>> \o RemoveToken(Tail(text), tok)

RECURSIVE Strip(_)
\* str.strip(): whitespace at both ends goes
Strip(text) ==
  IF text = <<>> THEN <<>>
  ELSE IF Head(text) = "NL" THEN Strip(Tail(text))
  ELSE IF text[Len(text)] = "NL" THEN Strip(SubSeq(text, 1, Len(text) - 1))
  ELSE text

\* the end of the match of \{.*?\} that starts at i, 0 when there is none:
\* the first } after i that no newline separates from i ('.' matches no newline)
MatchEnd(text, i) ==
  LET ends == {j \in (i + 1)..Len(text) :
                 /\ text[j] = "RB"
                 /\ \A k \in (i + 1)..(j - 1) : text[k] # "NL" /\ text[k] # "RB"}
  IN IF text[i] = "LB" /\ ends # {} THEN CHOOSE j \in ends : TRUE ELSE 0

RECURSIVE FindAll(_, _)
\* re.findall(r'\{.*?\}', text), scanning from position i
FindAll(text, i) ==
  IF i > Len(text) THEN <<>>
  ELSE CHOOSE found \in
         {IF end # 0
          THEN <<SubSeq(text, i, end)>> \o FindAll(text, end + 1)
          ELSE FindAll(text, i + 1) : end \in {MatchEnd(text, i)}} : TRUE

RECURSIVE ReSub(_, _)
\* re.sub(r'\{.*?\}', '', text), scanning from position i
ReSub(text, i) ==
  IF i > Len(text) THEN <<>>
  ELSE CHOOSE left \in
         {IF end # 0
          THEN ReSub(text, end + 1)
          ELSE <<text[i]>> \o ReSub(text, i + 1) : end \in {MatchEnd(text, i)}} : TRUE

RECURSIVE ParseMembers(_, _)
\* json.loads at position i inside an object: the position after the
\* object's closing }, 0 when the text is no JSON there
ParseMembers(text, i) ==
  IF i > Len(text) THEN 0
  ELSE IF text[i] = "NL" THEN ParseMembers(text, i + 1)
  ELSE IF text[i] = "RB" THEN i + 1
  ELSE IF text[i] \in MemberTokens THEN ParseMembers(text, i + 1)
  ELSE IF text[i] = "KO" /\ i + 1 <= Len(text) /\ text[i + 1] = "LB"
       THEN CHOOSE next \in
              {IF after = 0 THEN 0 ELSE ParseMembers(text, after) :
                 after \in {ParseMembers(text, i + 2)}} : TRUE
  ELSE 0

\* json.loads(segment) succeeds: the segment is one object and nothing else
JsonLoads(segment) ==
  /\ Len(segment) >= 2
  /\ segment[1] = "LB"
  /\ ParseMembers(segment, 2) = Len(segment) + 1

\* the valid segments among the matches, in text order
extract_json_objects(text) ==
  SelectSeq(FindAll(text, 1), JsonLoads)

remove_json_objects(text) == ReSub(text, 1)

----------------------------------------------------------------------------
(* Post-processing of the model text (query, after the provider answered)  *)

IsServiceToken(tok) == tok \in ServiceTokens
IsOtherMember(tok) == tok \in MemberTokens \ ServiceTokens

\* json.loads(segment) as a dict: the members of a flat object
Members(segment) == SubSeq(segment, 2, Len(segment) - 1)

\* service_call.pop("service"): the value of the key, the last one given
PopService(segment) ==
  LET svc == SelectSeq(Members(segment), IsServiceToken)
  IN ServiceOf(svc[Len(svc)])

\* a host service call that loses the remaining keys of the directive
HostCallNoData(domain, service, entity_id, data) ==
  [domain |-> domain, service |-> service, entity_id |-> entity_id, data |-> <<>>]

\* one host service call: hass.services.async_call(domain, service, data).
\* entity_id is <<>> unless the data carries the script's entity id; data
\* holds the other members of the directive (the "variables" of a script).
HostCall(domain, service, entity_id, data) ==
  [domain |-> domain, service |-> service, entity_id |-> entity_id, data |-> data]

\* the except clause of the loop: service_execution_failed is set and the
\* handler then uses the undefined name _lOGGER, so a NameError leaves query
HandlerRaises == TRUE

RECURSIVE RunSegments(_, _, _, _)
\* the loop over the extracted segments; st = [calls, called, failed,
\* raised]: the host calls made, services_called, service_execution_failed,
\* and whether an exception left the loop.  The failAt-th host call of the
\* turn raises (0: none does); before counts the host calls made earlier.
RunSegments(segs, i, failAt, st) ==
  IF i > Len(segs) THEN st
  ELSE
    LET seg == segs[i]
        caught == IF HandlerRaises
                  THEN [st EXCEPT !.failed = TRUE, !.raised = TRUE]
                  ELSE [st EXCEPT !.failed = TRUE]
        next(s) == IF s.raised THEN s ELSE RunSegments(segs, i + 1, failAt, s)
    IN
    IF SelectSeq(Members(seg), IsServiceToken) = <<>>
    THEN next(caught)                                    \* KeyError
    ELSE
      LET popped == PopService(seg)
          rest == SelectSeq(Members(seg), IsOtherMember)
          isScript == popped[1] = "script"
          service == IF isScript THEN <<"script", "turn_on">> ELSE popped
          entity == IF isScript THEN popped ELSE <<>>
      IN
      IF ~isScript /\ rest = <<>>
      THEN RunSegments(segs, i + 1, failAt, st)          \* 'Missing information'
      ELSE IF Len(service) < 2
      THEN next(caught)                                  \* IndexError
      ELSE
        LET call == HostCall(service[1], service[2], entity, rest)
            made == [st EXCEPT !.calls = Append(@, call)]
        IN IF st.before + Len(made.calls) = failAt
           THEN next([caught EXCEPT !.calls = made.calls])
           ELSE RunSegments(segs, i + 1, failAt,
                            [made EXCEPT !.called = Append(@, call)])

\* lines 382-390, for the text `noted` that the loop left
Cleaned(noted) ==
  CHOOSE out \in
    {Strip(c) : c \in
      {RemoveToken(b, "NAR") : b \in
        {RemoveToken(a, "AR") : a \in
          {remove_json_objects(noted)}}}} : TRUE

\* query from the line after the provider's answer (or after the inner
\* call returned) to its return: [content, calls, called, raised].
\* (Values are bound with \in so that each is computed once.)
PostProcess(content, failAt, before) ==
  LET st0 == [calls |-> <<>>, called |-> <<>>, failed |-> FALSE,
              raised |-> FALSE, before |-> before]
      Loop(text) ==
        IF \E i \in 1..Len(text) : text[i] = "AR"
        THEN CHOOSE st \in {RunSegments(segs, 1, failAt, st0) :
                              segs \in {extract_json_objects(text)}} : TRUE
        ELSE st0
      Return(text, st) ==
        [content |-> Cleaned(IF st.failed THEN text \o <<"ERRNOTE">> ELSE text),
         calls |-> st.calls, called |-> st.called, raised |-> st.raised]
  IN CHOOSE res \in
       UNION {{Return(text, st) : st \in {Loop(text)}} :
                text \in {RemoveToken(content, "BS")}} : TRUE

RECURSIVE Unwind(_, _, _)
\* the returns of the enclosing query calls: each of the `levels` callers
\* receives the message of the call below it and post-processes it again,
\* with a services_called list of its own
Unwind(res, levels, failAt) ==
  IF levels = 0 \/ res.raised THEN res
  ELSE CHOOSE up \in
         {Unwind([content |-> outer.content,
                  calls |-> res.calls \o outer.calls,
                  called |-> outer.called,
                  raised |-> outer.raised], levels - 1, failAt) :
            outer \in {PostProcess(res.content, failAt, Len(res.calls))}} : TRUE

\* the whole chain of returns for an answer given at recursion depth n
QueryReturn(content, n, failAt) ==
  CHOOSE up \in {Unwind(res, n, failAt) : res \in {PostProcess(content, failAt, 0)}} : TRUE

----------------------------------------------------------------------------
(* The agent and its turns                                                 *)

VARIABLES
  history,    \* OpenAIAgent.history: conversation id -> list of messages
  options,    \* entry.options: [ignore, max, functions]
  nextUlid,   \* the ulids handed out so far, plus one
  started,    \* the number of turns started
  turn,       \* the calls of async_process in progress, one per slot
  data,       \* hass.data[DOMAIN]: the entry ids that hold an agent
  agents,     \* the entries whose conversation agent is set
  log         \* entry -> how the calls of async_setup_entry and
              \* async_unload_entry for it ended, in order

vars == <<history, options, nextUlid, started, turn, data, agents, log>>
agentVars == <<history, options, nextUlid, started, turn>>
entryVars == <<data, agents, log>>

\* two calls of async_process can be in progress at a time
Slots == {"a", "b"}

\* the slot of the calls that follow one another
Serial == {"a"}

\* the config entries the host knows
Entries == {"e1", "e2"}

\* conversation ids: None, the ulids, and an id the agent never generated
None == <<"None">>
Ulid(k) == <<"ulid", k>>
Foreign == <<"foreign">>

\* the answers the provider's model gives as text
ModelTexts ==
  { <<"W">>,
    <<"W", "AR", "LB", "SVA", "KV", "RB", "LB", "SVB", "KV", "RB">>,
    <<"AR", "LB", "SVA", "KO", "LB", "KV", "RB", "RB">>,
    <<"AR", "LB", "SVA", "NL", "KV", "RB">>,
    <<"LB", "SVA", "KV", "RB", "LB", "SVA", "NL", "KV", "RB">>,
    <<"AR", "LB", "SVS", "KV", "RB", "LB", "KV", "RB">> }

\* str(result) of the k-th function executed in a turn: the executors
\* return a different result each time
Result(k) == <<"result", k>>

\* a message of the list; turn names the call of async_process that
\* appended it (the code's dicts hold role, name and content only)
Message(role, t, name, content) ==
  [role |-> role, turn |-> t, name |-> name, content |-> content]

\* the provider's answer: finish_reason, the text, and for a function call
\* whether its name is a configured function and its arguments are JSON
Answer(finish, content, known, argsOk) ==
  [finish |-> finish, content |-> content, known |-> known, argsOk |-> argsOk]

NoMessage == Answer("", <<>>, FALSE, FALSE)

Idle ==
  [pc |-> "idle", id |-> 0, input |-> None, conversation_id |-> None,
   ignore |-> FALSE, stored |-> FALSE, messages |-> <<>>, n_requests |-> 0,
   requests |-> 0, function_call |-> "", sent |-> <<>>, executed |-> <<>>,
   message |-> NoMessage, calls |-> <<>>, called |-> <<>>,
   result |-> "", error |-> "", speech |-> <<>>]

\* the list `messages` of slot s: the list stored in history when the turn
\* took it from there (line 174 binds the same list object), its own otherwise
Messages(s) ==
  IF turn[s].stored THEN history[turn[s].conversation_id] ELSE turn[s].messages

\* a request that never forbids function calls
FunctionCallAlwaysAuto(n) ==
  IF ~options.functions THEN "None" ELSE "auto"

\* function_call of a request sent with counter n
FunctionCallMode(n) ==
  IF ~options.functions THEN "None"
  ELSE IF n = options.max THEN "none"
  ELSE "auto"

\* the provider asks for a function only when the request lets it
ProviderMayCall(mode) == mode = "auto"

TypeOK ==
  /\ options \in [ignore : BOOLEAN, max : 0..MaxCalls, functions : BOOLEAN]
  /\ nextUlid \in 1..(MaxTurns + 1)
  /\ started \in 0..MaxTurns
  /\ DOMAIN turn = Slots
  /\ \A s \in Slots : turn[s].pc \in {"idle", "getUser", "awaitResp", "awaitExec", "post", "done"}

Init ==
  /\ history = [c \in {} |-> <<>>]
  /\ options \in [ignore : {FALSE}, max : {0, MaxCalls}, functions : BOOLEAN]
  /\ nextUlid = 1
  /\ started = 0
  /\ turn = [s \in Slots |-> Idle]
  /\ data = {}
  /\ agents = {}
  /\ log = [e \in Entries |-> <<>>]

\* a list that is rebuilt from the new message alone
AppendMessageReset(list, m) == <<m>>

\* a list that receives the new message twice
AppendMessageTwice(list, m) == Append(Append(list, m), m)

\* list.append
AppendMessage(list, m) == Append(list, m)

\* a turn that renders no system prompt
PromptMessagesNone(t) == <<>>

\* line 200: the list a turn starts when it has rendered its prompt
PromptMessages(t) == <<Message("system", t, "", <<"PROMPT">>)>>

\* an ignoring turn that keeps the id the caller supplied
IgnoringIdSupplied(input) == input

\* lines 170-171 and 178-179: the conversation id of a turn that ignores
\* conversation ids, whatever the caller supplied
IgnoringId(input) == None

\* an id generator that repeats itself
NewUlidRepeated == Ulid(1)

\* ulid.ulid(): an id no earlier call returned
NewUlid == Ulid(nextUlid)

\* query up to its await of the provider, with counter rec.n_requests: the
\* request carries the list as it is now
Send(rec, list) ==
  [rec EXCEPT !.pc = "awaitResp",
              !.requests = @ + 1,
              !.function_call = FunctionCallMode(rec.n_requests),
              !.sent = list]

\* the list of the turn in slot s becomes `list` and its record rec
Update(s, rec, list) ==
  IF rec.stored
  THEN /\ history' = [history EXCEPT ![rec.conversation_id] = list]
       /\ turn' = [turn EXCEPT ![s] = rec]
  ELSE /\ history' = history
       /\ turn' = [turn EXCEPT ![s] = [rec EXCEPT !.messages = list]]

\* the record of a call that has returned: its locals are gone
Returned(rec, result, error) ==
  [rec EXCEPT !.pc = "done", !.result = result, !.error = error,
              !.stored = FALSE, !.messages = <<>>,
              !.function_call = "", !.sent = <<>>]

\* the exceptions of exceptions.py and of the executors derive from
\* HomeAssistantError
HomeAssistantErrors == {"HomeAssistantError", "FunctionNotFound", "ParseArgumentsFailed"}

\* the except clauses of async_process: TemplateError (line 190), OpenAIError
\* (line 211), HomeAssistantError (line 221)
Caught(kind) == kind \in {"TemplateError", "OpenAIError"} \cup HomeAssistantErrors

\* an exception of class kind is raised in the turn of slot s: async_process
\* returns an error response when a clause catches it, and raises otherwise
Raise(s, kind) ==
  turn' = [turn EXCEPT ![s] =
             Returned(@, IF Caught(kind) THEN "error" ELSE "raised", kind)]

\* the decoder's own exception, passed on as it is
ParseErrorUnwrapped == "JSONDecodeError"

\* execute_function, lines 451-454: what json.loads failing turns into
ParseError == "ParseArgumentsFailed"

\* the ids a caller can supply: none, one the agent never made, and the
\* ids of the stored conversations
Inputs == {None, Foreign} \cup DOMAIN history

\* async_process, lines 164-182, and for a known id on to the first request
StartTurn(s, input) ==
  LET base == [Idle EXCEPT !.id = started + 1, !.input = input,
                           !.ignore = options.ignore]
      user == Message("user", started + 1, "", <<"U">>)
  IN
  /\ turn[s].pc \in {"idle", "done"}
  /\ started < MaxTurns
  /\ started' = started + 1
  /\ IF input \in DOMAIN history
     THEN /\ nextUlid' = nextUlid
          /\ IF options.ignore
             THEN LET rec == [base EXCEPT !.conversation_id = IgnoringId(input)]
                      list == AppendMessage(<<>>, user)
                  IN Update(s, Send(rec, list), list)
             ELSE LET rec == [base EXCEPT !.conversation_id = input, !.stored = TRUE]
                      list == AppendMessage(history[input], user)
                  IN Update(s, Send(rec, list), list)
     ELSE /\ history' = history
          /\ IF options.ignore
             THEN /\ nextUlid' = nextUlid
                  /\ turn' = [turn EXCEPT ![s] =
                                [base EXCEPT !.pc = "getUser",
                                             !.conversation_id = IgnoringId(input)]]
             ELSE /\ nextUlid' = nextUlid + 1
                  /\ turn' = [turn EXCEPT ![s] =
                                [base EXCEPT !.pc = "getUser", !.conversation_id = NewUlid]]
  /\ UNCHANGED <<options, entryVars>>

\* lines 184-207 and the first request: the prompt renders
RenderPrompt(s) ==
  LET rec == turn[s]
      list == AppendMessage(PromptMessages(rec.id),
                            Message("user", rec.id, "", <<"U">>))
  IN
  /\ rec.pc = "getUser"
  /\ Update(s, Send(rec, list), list)
  /\ UNCHANGED <<options, nextUlid, started, entryVars>>

\* lines 190-199: the template raises TemplateError
TemplateFails(s) ==
  /\ turn[s].pc = "getUser"
  /\ Raise(s, "TemplateError")
  /\ UNCHANGED <<history, options, nextUlid, started, entryVars>>

\* lines 325-333 raise OpenAIError, caught at line 211
ProviderFails(s) ==
  /\ turn[s].pc = "awaitResp"
  /\ Raise(s, "OpenAIError")
  /\ UNCHANGED <<history, options, nextUlid, started, entryVars>>

\* the provider answers with text (finish_reason is not "function_call")
ProviderAnswers(s, content) ==
  /\ turn[s].pc = "awaitResp"
  /\ turn' = [turn EXCEPT ![s] = [@ EXCEPT !.pc = "post",
                 !.function_call = "", !.sent = <<>>,
                 !.message = Answer("stop", content, FALSE, FALSE)]]
  /\ UNCHANGED <<history, options, nextUlid, started, entryVars>>

\* the provider asks for a function: execute_function_call and
\* execute_function up to the await of the executor (lines 340-343, 424-458)
ProviderCalls(s, known, argsOk) ==
  /\ turn[s].pc = "awaitResp"
  /\ ProviderMayCall(turn[s].function_call)
  /\ turn[s].n_requests <= MaxCalls
  /\ LET rec == [turn[s] EXCEPT !.message = Answer("function_call", <<>>, known, argsOk)]
     IN IF ~(known /\ options.functions)
        THEN turn' = [turn EXCEPT ![s] = Returned(rec, "error", "FunctionNotFound")]
        ELSE IF ~argsOk
        THEN turn' = [turn EXCEPT ![s] =
                        Returned(rec, IF Caught(ParseError) THEN "error" ELSE "raised",
                                 ParseError)]
        ELSE turn' = [turn EXCEPT ![s] = [rec EXCEPT !.pc = "awaitExec",
                         !.n_requests = @ + 1,
                         !.function_call = "", !.sent = <<>>]]
  /\ UNCHANGED <<history, options, nextUlid, started, entryVars>>

\* lines 456-467: the executor returns, its result is appended and the
\* next request goes out
ExecutorReturns(s) ==
  LET result == Result(Len(turn[s].executed) + 1)
      rec == [turn[s] EXCEPT !.executed = Append(@, result)]
      list == AppendMessage(Messages(s), Message("function", rec.id, "f", result))
  IN
  /\ turn[s].pc = "awaitExec"
  /\ Update(s, Send(rec, list), list)
  /\ UNCHANGED <<options, nextUlid, started, entryVars>>

\* line 456: the executor raises a HomeAssistantError
ExecutorFails(s) ==
  /\ turn[s].pc = "awaitExec"
  /\ Raise(s, "HomeAssistantError")
  /\ UNCHANGED <<history, options, nextUlid, started, entryVars>>

\* the host calls that can raise in the turn of slot s: 0 stands for none,
\* k for the k-th call of the turn; a text leads to no more calls than it
\* has opening braces
FailPoints(s) ==
  IF turn[s].pc = "post"
  THEN 0..Len(SelectSeq(turn[s].message.content, LAMBDA tok : tok = "LB"))
  ELSE {}

\* the returns of the query calls (lines 345-392) and the end of
\* async_process (lines 232-244); the failAt-th host call raises, which
\* takes a turn that makes as many calls
Respond(s, failAt) ==
  /\ turn[s].pc = "post"
  /\ \E res \in {QueryReturn(turn[s].message.content, turn[s].n_requests, failAt)} :
    LET rec == turn[s]
        done(result, error) ==
          [Returned(rec, result, error) EXCEPT !.calls = res.calls, !.called = res.called]
        list == AppendMessage(Messages(s), Message("assistant", rec.id, "", res.content))
    IN
    /\ failAt <= Len(res.calls)
    /\ IF res.raised
       THEN /\ turn' = [turn EXCEPT ![s] = done("raised", "NameError")]
            /\ history' = history
       ELSE /\ turn' = [turn EXCEPT ![s] = [done("speech", "") EXCEPT
                   !.speech = IF Len(res.called) > 0
                              THEN res.content \o <<"OKNOTE">> ELSE res.content]]
            /\ IF rec.conversation_id # None
               THEN history' = [c \in DOMAIN history \cup {rec.conversation_id} |->
                                  IF c = rec.conversation_id THEN list ELSE history[c]]
               ELSE history' = history
    /\ UNCHANGED <<options, nextUlid, started, entryVars>>

\* the options flow changes the 'ignore conversation id' option
SetIgnore(b) ==
  /\ options.ignore # b
  /\ options' = [options EXCEPT !.ignore = b]
  /\ UNCHANGED <<history, nextUlid, started, turn, entryVars>>

----------------------------------------------------------------------------
(* Set-up and unloading of a config entry                                  *)

\* what async_setup_entry does to the host's state when it gets as far as
\* line 125: data is set under the entry id and the agent is set
Register(e) ==
  /\ data' = data \cup {e}
  /\ agents' = agents \cup {e}

\* what a set-up that stops at line 121 or 123 does to the host's state
RegisterNothing(e) ==
  /\ data' = data
  /\ agents' = agents

\* async_setup_entry, validate_authentication returning: it returns True
SetupOk(e) ==
  /\ Register(e)
  /\ Len(log[e]) < MaxEntryCalls
  /\ log' = [log EXCEPT ![e] = Append(@, "True")]
  /\ UNCHANGED agentVars

\* async_setup_entry, AuthenticationError: logs and returns False
SetupAuthError(e) ==
  /\ RegisterNothing(e)
  /\ Len(log[e]) < MaxEntryCalls
  /\ log' = [log EXCEPT ![e] = Append(@, "False")]
  /\ UNCHANGED agentVars

\* async_setup_entry, another OpenAIError: raises ConfigEntryNotReady
SetupNotReady(e) ==
  /\ RegisterNothing(e)
  /\ Len(log[e]) < MaxEntryCalls
  /\ log' = [log EXCEPT ![e] = Append(@, "ConfigEntryNotReady")]
  /\ UNCHANGED agentVars

\* an unload that forgets to unset the agent
UnregisterDataOnly(e) ==
  /\ data' = data \ {e}
  /\ agents' = agents

\* what async_unload_entry does to the host's state: pop raises KeyError
\* for an entry that holds no data, and nothing changes
Unregister(e) ==
  IF e \in data
  THEN /\ data' = data \ {e}
       /\ agents' = agents \ {e}
  ELSE /\ data' = data
       /\ agents' = agents

\* async_unload_entry
Unload(e) ==
  /\ Unregister(e)
  /\ Len(log[e]) < MaxEntryCalls
  /\ log' = [log EXCEPT ![e] = Append(@, IF e \in data THEN "Unloaded" ELSE "KeyError")]
  /\ UNCHANGED agentVars

----------------------------------------------------------------------------
(* Specifications                                                          *)

\* the steps a call of async_process takes once it has started
TurnStep(s) ==
  \/ RenderPrompt(s)
  \/ TemplateFails(s)
  \/ ProviderFails(s)
  \/ \E content \in ModelTexts : ProviderAnswers(s, content)
  \/ \E known, argsOk \in BOOLEAN : ProviderCalls(s, known, argsOk)
  \/ ExecutorReturns(s)
  \/ ExecutorFails(s)
  \/ \E failAt \in FailPoints(s) :
       Respond(s, failAt)

Next ==
  \/ \E s \in Serial : \E input \in Inputs : StartTurn(s, input)
  \/ \E s \in Serial : RenderPrompt(s)
  \/ \E s \in Serial : TemplateFails(s)
  \/ \E s \in Serial : ProviderFails(s)
  \/ \E s \in Serial : \E content \in ModelTexts : ProviderAnswers(s, content)
  \/ \E s \in Serial : \E known, argsOk \in BOOLEAN : ProviderCalls(s, known, argsOk)
  \/ \E s \in Serial : ExecutorReturns(s)
  \/ \E s \in Serial : ExecutorFails(s)
  \/ \E s \in Serial : \E failAt \in FailPoints(s) :
       Respond(s, failAt)
  \/ \E b \in BOOLEAN : SetIgnore(b)

\* the turns of one agent
Spec == Init /\ [][Next]_vars

\* the turns of one agent, where the provider, the executors and the host
\* answer every await
FairSpec == Spec /\ \A s \in Serial : WF_vars(TurnStep(s))

NextEntry ==
  \/ \E e \in Entries : SetupOk(e)
  \/ \E e \in Entries : SetupAuthError(e)
  \/ \E e \in Entries : SetupNotReady(e)
  \/ \E e \in Entries : Unload(e)

\* the host setting up and unloading entries
SpecEntry == Init /\ [][NextEntry]_vars

\* the history of a conversation that an earlier turn created and completed
Earlier ==
  <<Message("system", 0, "", <<"PROMPT">>), Message("user", 0, "", <<"U">>),
    Message("assistant", 0, "", <<"W">>)>>

\* the agent with one stored conversation and no call in progress
InitOverlap ==
  /\ history = [c \in {Ulid(1)} |-> Earlier]
  /\ options \in [ignore : {FALSE}, max : {0, MaxCalls}, functions : BOOLEAN]
  /\ nextUlid = 2
  /\ started = 0
  /\ turn = [s \in Slots |-> Idle]
  /\ data = {}
  /\ agents = {}
  /\ log = [e \in Entries |-> <<>>]

\* calls of async_process on stored conversations, which the event loop
\* interleaves at their awaits
NextOverlap ==
  \/ \E s \in Slots : \E input \in DOMAIN history : StartTurn(s, input)
  \/ \E s \in Slots : ProviderFails(s)
  \/ \E s \in Slots : \E content \in ModelTexts : ProviderAnswers(s, content)
  \/ \E s \in Slots : \E known, argsOk \in BOOLEAN : ProviderCalls(s, known, argsOk)
  \/ \E s \in Slots : ExecutorReturns(s)
  \/ \E s \in Slots : ExecutorFails(s)
  \/ \E s \in Slots : \E failAt \in FailPoints(s) :
       Respond(s, failAt)

\* two calls of async_process at a time on the stored conversation
SpecOverlap == InitOverlap /\ [][NextOverlap]_vars

----------------------------------------------------------------------------
(* Properties                                                              *)

IsPrefix(p, q) == Len(p) <= Len(q) /\ SubSeq(q, 1, Len(p)) = p

Last(list) == list[Len(list)]

\* the messages of a list that the turn numbered t appended
OwnMessages(list, t) == SelectSeq(list, LAMBDA m : m.turn = t)

\* the function messages of a list that the turn numbered t appended
OwnResults(list, t) == SelectSeq(list, LAMBDA m : m.turn = t /\ m.role = "function")

\* the function messages a turn appends for the results r
ResultMessages(t, r) == [i \in 1..Len(r) |-> Message("function", t, "f", r[i])]

\* slot s takes the step that ends its turn with a spoken response
Succeeds(s) == turn[s].pc = "post" /\ turn'[s].result = "speech"

\* C1: with the 'ignore conversation id' option off, no step of a turn
\* removes a conversation id or changes a stored history other than by
\* appending to it, and the step that ends a successful turn leaves, as the
\* turn's own messages in the history of its conversation, its user message,
\* its function results in order and its assistant message, which is last.
C1_HistoryGrows ==
  [][ /\ \A c \in DOMAIN history :
           c \in DOMAIN history' /\ IsPrefix(history[c], history'[c])
      /\ \A s \in Slots :
           Succeeds(s) /\ ~turn[s].ignore =>
             LET rec == turn'[s]
                 c == rec.conversation_id
                 own == OwnMessages(history'[c], rec.id)
                 said == Last(own)
                 start == IF own[1].role = "system" THEN 2 ELSE 1
             IN /\ c \in DOMAIN history'
                /\ Last(history'[c]) = said
                /\ said.role = "assistant"
                /\ rec.speech \in {said.content, said.content \o <<"OKNOTE">>}
                /\ own[start] = Message("user", rec.id, "", <<"U">>)
                /\ SubSeq(own, start + 1, Len(own) - 1) = ResultMessages(rec.id, rec.executed)
                /\ (start = 2) = (c \notin DOMAIN history)
    ]_vars

\* a conversation that a second turn has extended, with a function result
C1_Witness ==
  \E c \in DOMAIN history :
    /\ OwnMessages(history[c], 1) # <<>>
    /\ OwnResults(history[c], 2) # <<>>
    /\ Last(history[c]).role = "assistant"
    /\ Last(history[c]).turn = 2

\* the first request of the turn in slot s is with the provider
FirstRequestOut(s) == turn[s].pc = "awaitResp" /\ turn[s].requests = 1

\* C2: when the 'ignore conversation id' option is set, the first request
\* of a turn carries exactly the freshly rendered system prompt and the
\* turn's user message, whatever conversation id the caller supplied.
C2_FreshPromptWhenIgnoring ==
  \A s \in Slots :
    FirstRequestOut(s) /\ turn[s].ignore =>
      turn[s].sent = << Message("system", turn[s].id, "", <<"PROMPT">>),
                        Message("user", turn[s].id, "", <<"U">>) >>

\* the turn of slot s has not returned
Running(s) == turn[s].pc \in {"getUser", "awaitResp", "awaitExec", "post"}

\* what C3 says of the counters of the turn in slot s
C3_Counters(s) ==
  LET rec == turn[s]
  IN /\ Len(rec.executed) <= options.max
     /\ rec.requests <= options.max + 1
     /\ rec.n_requests <= options.max
     /\ rec.pc \in {"awaitResp", "post"} =>
          rec.n_requests = Len(rec.executed) /\ rec.requests = rec.n_requests + 1
     /\ rec.pc = "awaitExec" => rec.n_requests = Len(rec.executed) + 1

\* C3 as stated: every turn terminates, executes at most M functions and
\* sends at most M+1 requests, the counter grows by one per executed
\* function, and the request whose counter equals M is sent with
\* function_call 'none'.
C3_AsStated ==
  \A s \in Slots :
    /\ C3_Counters(s)
    /\ turn[s].pc = "awaitResp" /\ turn[s].n_requests = options.max =>
         turn[s].function_call = "none"

\* C3, amended: every turn terminates, executes at most M functions and
\* sends at most M+1 requests, the counter grows by one per executed
\* function, and the request whose counter equals M is sent with
\* function_call 'none' when a function is configured; when none is
\* configured every request is sent with function_call None.
C3_BoundedRecursion ==
  /\ [](\A s \in Slots :
          /\ C3_Counters(s)
          /\ turn[s].pc = "awaitResp" =>
               turn[s].function_call =
                 IF ~options.functions THEN "None"
                 ELSE IF turn[s].n_requests = options.max THEN "none" ELSE "auto")
  /\ \A s \in Serial : Running(s) ~> turn[s].pc = "done"

\* a turn that executed M > 0 functions and sent M+1 requests has returned
C3_Witness ==
  \E s \in Slots :
    /\ turn[s].pc = "done"
    /\ options.max > 0
    /\ Len(turn[s].executed) = options.max
    /\ turn[s].requests = options.max + 1
    /\ turn[s].result = "speech"

\* the position of the first tok in text, 0 when there is none
FirstIndex(text, tok) ==
  IF \E i \in 1..Len(text) : text[i] = tok
  THEN CHOOSE i \in 1..Len(text) : text[i] = tok /\ \A j \in 1..(i - 1) : text[j] # tok
  ELSE 0

RECURSIVE TopObjects(_, _)
\* the JSON objects of a text from position i on, each taken whole
TopObjects(text, i) ==
  IF i > Len(text) THEN <<>>
  ELSE IF text[i] = "LB" /\ ParseMembers(text, i + 1) # 0
       THEN <<SubSeq(text, i, ParseMembers(text, i + 1) - 1)>>
              \o TopObjects(text, ParseMembers(text, i + 1))
       ELSE TopObjects(text, i + 1)

RECURSIVE TopServices(_, _, _)
\* the "service" members of an object itself, not of the objects inside it
TopServices(object, i, depth) ==
  IF i > Len(object) THEN <<>>
  ELSE IF object[i] = "LB" THEN TopServices(object, i + 1, depth + 1)
  ELSE IF object[i] = "RB" THEN TopServices(object, i + 1, depth - 1)
  ELSE IF object[i] \in ServiceTokens /\ depth = 1
       THEN <<object[i]>> \o TopServices(object, i + 1, depth)
  ELSE TopServices(object, i + 1, depth)

\* the directives of a text: the JSON objects after $ActionRequired
Directives(text) ==
  IF FirstIndex(text, "AR") = 0 THEN <<>>
  ELSE TopObjects(text, FirstIndex(text, "AR") + 1)

\* the host call is the one the directive asks for
CallMatches(call, object) ==
  LET named == TopServices(object, 1, 0)
      service == ServiceOf(named[Len(named)])
  IN IF service[1] = "script"
     THEN call.entity_id = service
     ELSE <<call.domain, call.service>> = service

\* post-processing has run in the turn of slot s
PostProcessed(s) ==
  turn[s].pc = "done" /\ turn[s].message.finish = "stop"

\* C4: when the model text holds $ActionRequired followed by k >= 1 valid
\* JSON objects that each have a service key, post-processing makes exactly
\* k host service calls in the turn, one per object and in text order.
C4_OneCallPerDirective ==
  \A s \in Slots :
    LET objects == Directives(turn[s].message.content) IN
    ( /\ PostProcessed(s)
      /\ Len(objects) >= 1
      /\ \A i \in 1..Len(objects) : TopServices(objects[i], 1, 0) # <<>> )
    => /\ Len(turn[s].calls) = Len(objects)
       /\ \A i \in 1..Len(objects) : CallMatches(turn[s].calls[i], objects[i])

JsonTokens == {"LB", "RB", "KO"} \cup MemberTokens

\* C5: the text that query returns holds no raw JSON: no brace and no
\* member of an object is left of any JSON object of the model text.
C5_NoRawJson ==
  \A s \in Slots :
    turn[s].pc = "done" /\ turn[s].result = "speech" =>
      \A i \in 1..Len(turn[s].speech) : turn[s].speech[i] \notin JsonTokens

\* C6: when the arguments of a requested function are not valid JSON, the
\* turn ends at that step with an error response for ParseArgumentsFailed:
\* no exception leaves async_process, no executor has run and no function
\* message has been appended.
C6_ParseFailureIsAnError ==
  [][ \A s \in Slots :
        ( /\ turn[s].pc = "awaitResp"
          /\ turn'[s].pc # "awaitResp"
          /\ turn'[s].message.finish = "function_call"
          /\ turn'[s].message.known /\ options.functions
          /\ ~turn'[s].message.argsOk )
        => /\ turn'[s].pc = "done"
           /\ turn'[s].result = "error"
           /\ turn'[s].error = "ParseArgumentsFailed"
           /\ turn'[s].executed = turn[s].executed
           /\ history' = history
    ]_vars

\* a turn that executed a function and was then asked for one with
\* malformed arguments has returned an error response
C6_Witness ==
  \E s \in Slots :
    /\ turn[s].pc = "done"
    /\ turn[s].message.finish = "function_call"
    /\ turn[s].message.known /\ ~turn[s].message.argsOk
    /\ Len(turn[s].executed) = 1
    /\ turn[s].result = "error"

\* C7: with the 'ignore conversation id' option off, a turn whose supplied
\* id is a key takes that id and continues from its history; any other turn
\* takes a new id that is no key, differs from the supplied id and from the
\* ids of the other turns; a step changes the history of the conversation of
\* the turn that takes it and no other; and a successful turn returns an id
\* that is a key of the history.
C7_ConversationIds ==
  [][ \A s \in Slots :
        LET now == turn[s]
            rec == turn'[s]
        IN
        /\ rec.id # now.id /\ ~rec.ignore =>
             IF rec.input \in DOMAIN history
             THEN /\ rec.conversation_id = rec.input
                  /\ rec.sent = Append(history[rec.input], Message("user", rec.id, "", <<"U">>))
             ELSE /\ rec.conversation_id # None
                  /\ rec.conversation_id # rec.input
                  /\ rec.conversation_id \notin DOMAIN history
                  /\ \A o \in Slots \ {s} : turn[o].conversation_id # rec.conversation_id
        /\ rec # now /\ ~rec.ignore =>
             /\ \A c \in DOMAIN history \ {rec.conversation_id} :
                  c \in DOMAIN history' /\ history'[c] = history[c]
             /\ DOMAIN history' \subseteq DOMAIN history \cup {rec.conversation_id}
             /\ rec.conversation_id \in DOMAIN history /\ rec.id = now.id =>
                  rec.input = rec.conversation_id
        /\ Succeeds(s) /\ ~now.ignore =>
             /\ rec.conversation_id = now.conversation_id
             /\ rec.conversation_id \in DOMAIN history'
    ]_vars

\* two conversations are stored, and the second turn has returned the id
\* of the one it created
C7_Witness ==
  \E s \in Slots :
    /\ turn[s].pc = "done" /\ turn[s].result = "speech" /\ ~turn[s].ignore
    /\ turn[s].id = 2
    /\ turn[s].input \notin DOMAIN history
    /\ turn[s].conversation_id \in DOMAIN history
    /\ Cardinality(DOMAIN history) = 2

\* C8: each function executed in a turn has exactly one function message,
\* appended once the executor has returned and before the next request is
\* sent: a request carries the results of all the executions before it, in
\* the order of execution, and while an executor runs the list holds the
\* results of the earlier executions only.
C8_ResultsBeforeNextRequest ==
  \A s \in Slots :
    /\ turn[s].pc = "awaitResp" =>
         /\ OwnResults(turn[s].sent, turn[s].id) = ResultMessages(turn[s].id, turn[s].executed)
         /\ Len(turn[s].executed) = turn[s].requests - 1
         /\ OwnResults(Messages(s), turn[s].id) = ResultMessages(turn[s].id, turn[s].executed)
    /\ turn[s].pc \in {"awaitExec", "post"} =>
         OwnResults(Messages(s), turn[s].id) = ResultMessages(turn[s].id, turn[s].executed)

\* the third request of a turn is out, with two results in it
C8_Witness ==
  \E s \in Slots :
    /\ turn[s].pc = "awaitResp"
    /\ turn[s].requests = 3
    /\ Len(OwnResults(turn[s].sent, turn[s].id)) = 2

\* how the calls for an entry ended
SetupEnds == {"True", "False", "ConfigEntryNotReady"}
UnloadEnds == {"Unloaded", "KeyError"}

\* an agent is registered for entry e, in hass.data and as conversation agent
InData(e) == e \in data
IsAgent(e) == e \in agents

\* the last set-up of the entry returned True and no unload has run since
LastSetupStands(l) ==
  \E i \in 1..Len(l) :
    /\ l[i] = "True"
    /\ \A j \in (i + 1)..Len(l) : l[j] \notin SetupEnds \cup UnloadEnds

\* a set-up of the entry returned True and no unload has run since
SomeSetupStands(l) ==
  \E i \in 1..Len(l) :
    /\ l[i] = "True"
    /\ \A j \in (i + 1)..Len(l) : l[j] \notin UnloadEnds

\* C9 as stated: an agent is registered for an entry if and only if the
\* last set-up of the entry returned True and no unload has run since.
C9_AsStated ==
  \A e \in Entries :
    /\ InData(e) <=> LastSetupStands(log[e])
    /\ IsAgent(e) <=> LastSetupStands(log[e])

\* C9, amended: an agent is registered for an entry if and only if some
\* set-up of the entry returned True and no unload has run since; a set-up
\* that returns False or raises ConfigEntryNotReady changes no registration.
C9_Registration ==
  /\ [](\A e \in Entries :
          /\ InData(e) <=> SomeSetupStands(log[e])
          /\ IsAgent(e) <=> SomeSetupStands(log[e]))
  /\ [][ \A e \in Entries :
           log'[e] # log[e] /\ Last(log'[e]) \in {"False", "ConfigEntryNotReady"} =>
             data' = data /\ agents' = agents ]_vars

\* an entry is registered although its last set-up failed, and another
\* has been unloaded
C9_Witness ==
  \E e, f \in Entries :
    /\ log[e] = <<"True", "False">>
    /\ InData(e) /\ IsAgent(e)
    /\ log[f] = <<"ConfigEntryNotReady", "True", "Unloaded">>
    /\ ~InData(f) /\ ~IsAgent(f)

\* the function messages of a list
AllResults(list) == SelectSeq(list, LAMBDA m : m.role = "function")

\* C10 as stated: across the turns that share a conversation id, the
\* number of functions executed never exceeds the configured maximum.
C10_AsStated ==
  \A c \in DOMAIN history : Len(AllResults(history[c])) <= options.max

\* C10, amended: the configured maximum bounds the functions executed
\* within each single turn; the turns that share a conversation id can
\* execute more than the maximum together, as each turn counts from 0.
C10_PerTurnBound ==
  \A c \in DOMAIN history :
    \A t \in 1..started : Len(OwnResults(history[c], t)) <= options.max

\* a conversation holds more function results than the maximum
C10_Witness ==
  \E c \in DOMAIN history :
    /\ options.max > 0
    /\ Len(AllResults(history[c])) > options.max
    /\ \E t \in 1..started : Len(OwnResults(history[c], t)) = options.max


\* C11: for a model text without $ActionRequired, post-processing makes no
\* host service call, whatever JSON objects the text holds, and the text
\* that is returned holds none of those objects.
C11_SentinelGates ==
  \A s \in Slots :
    ( /\ PostProcessed(s)
      /\ \A i \in 1..Len(turn[s].message.content) : turn[s].message.content[i] # "AR" )
    => /\ turn[s].calls = <<>>
       /\ turn[s].result = "speech"
       /\ \A i \in 1..Len(turn[s].speech) : turn[s].speech[i] \notin JsonTokens

\* the call a directive asks for: script.turn_on with the service string as
\* entity id and the remaining keys as variables for a script, the service
\* of the domain with the remaining keys as data for any other
ExpectedCall(segment) ==
  LET named == SelectSeq(Members(segment), IsServiceToken)
      service == ServiceOf(named[Len(named)])
      rest == SelectSeq(Members(segment), IsOtherMember)
  IN IF service[1] = "script"
     THEN [domain |-> "script", service |-> "turn_on", entity_id |-> service, data |-> rest]
     ELSE [domain |-> service[1], service |-> service[2], entity_id |-> <<>>, data |-> rest]

\* the directives of a text that name a service as domain.name
Named(text) ==
  SelectSeq(extract_json_objects(text),
            LAMBDA seg : /\ SelectSeq(Members(seg), IsServiceToken) # <<>>
                         /\ Len(PopService(seg)) = 2)

DirectiveFailed(s) ==
  /\ \E i \in 1..Len(turn[s].message.content) : turn[s].message.content[i] = "AR"
  /\ \/ \E k \in 1..Len(extract_json_objects(turn[s].message.content)) :
          SelectSeq(Members(extract_json_objects(turn[s].message.content)[k]),
                    IsServiceToken) = <<>>
     \/ Len(turn[s].calls) > Len(turn[s].called)

\* C13: when a directive fails (no service key, or the host call raises),
\* the other directives of the text are still attempted, the error notice
\* is added to the text, and the turn returns a speech response.
C13_FailureContained ==
  \A s \in Slots :
    ( PostProcessed(s) /\ turn[s].n_requests = 0 /\ DirectiveFailed(s) )
    => /\ turn[s].result = "speech"
       /\ \E i \in 1..Len(turn[s].speech) : turn[s].speech[i] = "ERRNOTE"
       /\ \A k \in 1..Len(Named(turn[s].message.content)) :
            \E i \in 1..Len(turn[s].calls) :
              turn[s].calls[i] = ExpectedCall(Named(turn[s].message.content)[k])

\* C14: the spoken response of a successful turn ends with the success note
\* if and only if post-processing invoked at least one host service in the
\* turn, also when the directives came in the answer after function calls.
C14_SuccessNote ==
  \A s \in Slots :
    turn[s].pc = "done" /\ turn[s].result = "speech" =>
      ( (turn[s].speech # <<>> /\ Last(turn[s].speech) = "OKNOTE")
        <=> turn[s].calls # <<>> )


\* C15: a turn that ends in an error response leaves no trace in the stored
\* history: no message of that turn, user message or function result, is in
\* the history of any conversation.
C15_FailedTurnLeavesNoTrace ==
  \A s \in Slots :
    turn[s].pc = "done" /\ turn[s].result = "error" =>
      \A c \in DOMAIN history : OwnMessages(history[c], turn[s].id) = <<>>

\* C16: every stored history is a non-empty list whose first message is its
\* only system message: the prompt is rendered in the turn that creates the
\* conversation, and no later turn adds a system message.
C16_OneSystemPrompt ==
  \A c \in DOMAIN history :
    /\ history[c] # <<>>
    /\ history[c][1].role = "system"
    /\ \A i \in 2..Len(history[c]) :
         /\ history[c][i].role # "system"
         /\ history[c][i].turn >= history[c][1].turn

\* a conversation holds the messages of the turn that created it and the
\* messages of a later turn
C16_Witness ==
  \E c \in DOMAIN history :
    /\ history[c][1].role = "system"
    /\ \E i \in 2..Len(history[c]) :
         /\ history[c][i].role = "assistant"
         /\ history[c][i].turn > history[c][1].turn

\* C17: a turn that runs with the 'ignore conversation id' option set
\* leaves the history map as it is at every one of its steps, sends only
\* messages of its own, and returns None as conversation id, whether it
\* succeeds or fails and whether or not the supplied id is a key.
C17_IgnoringTurnFrame ==
  [][ \A s \in Slots :
        turn'[s] # turn[s] /\ turn'[s].ignore =>
          /\ history' = history
          /\ turn'[s].conversation_id = None
          /\ ~turn'[s].stored
          /\ \A i \in 1..Len(turn'[s].sent) : turn'[s].sent[i].turn = turn'[s].id
    ]_vars

\* an ignoring turn that was given the id of a stored conversation has
\* succeeded
C17_Witness ==
  \E s \in Slots :
    /\ turn[s].pc = "done" /\ turn[s].ignore
    /\ turn[s].result = "speech"
    /\ turn[s].input \in DOMAIN history
    /\ turn[s].conversation_id = None

\* the turn numbered t is in progress
InProgress(t) ==
  \E o \in Slots : turn[o].id = t /\ turn[o].pc \notin {"idle", "done"}

\* C18: when turns on one conversation id overlap, the list a turn sends
\* holds, besides the turn's own messages, only messages of turns that have
\* completed, and in the stored history the messages of a turn are not
\* separated by a message of another turn.
C18_NoInterleaving ==
  /\ \A s \in Slots :
       turn[s].pc = "awaitResp" =>
         \A i \in 1..Len(turn[s].sent) :
           turn[s].sent[i].turn = turn[s].id \/ ~InProgress(turn[s].sent[i].turn)
  /\ \A c \in DOMAIN history :
       \A i, j \in 1..Len(history[c]) :
         i < j /\ history[c][i].turn = history[c][j].turn =>
           \A k \in i..j : history[c][k].turn = history[c][i].turn

====
